---- MODULE Spec2Model ----
(***************************************************************************)
(* MAGAN (src/MAGAN/magan_model.py): the construction of the graph by     *)
(* MAGAN.__init__ / build_magan, and the session runs of the operations   *)
(* it exposes (d_real_op, d_op, g_op, the four losses, g_test).            *)
(*                                                                         *)
(* A tensor of the graph is a record: its static shape (height, width,    *)
(* channel; the batch dimension is dynamic), the variables it reads, the  *)
(* batch-norm running statistics its evaluation may update, and the       *)
(* variables its construction created.  A variable name is the tuple of   *)
(* its scope path, layer name and variable name.  A parameter value is a  *)
(* residue in 0..MaxVal.                                                   *)
(***************************************************************************)
EXTENDS Integers, Sequences, FiniteSets, TLC

\* ---------------------------------------------------------------- bounds
MaxGfDim == 3
MaxHalfSide == 14
MaxBatch == 2
MaxNoise == 1
MaxLoss == 2
MaxVal == 1

\* ------------------------------------------------------ program constants
DefaultGfDim == 64
DefaultFcUnit == 512
DefaultChannel == 1
DefaultSide == 28
Kernel == 4
Stride == 2
FeatureSide == 4

\* gf_dim from 2: with gf_dim = 1 the reshape target has gf_dim // 2 = 0
\* channels, and what the layers do with an empty tensor is the framework's
GfDims == (2..MaxGfDim) \cup {DefaultGfDim}
FcUnits == (1..(8 * MaxGfDim)) \cup {DefaultFcUnit}
Sides == {2 * k : k \in 1..MaxHalfSide}
Paddings == {"SAME", "VALID"}
Batches == 1..MaxBatch
Noise == 0..MaxNoise
LossValues == 0..MaxLoss
Margins == (0 - MaxLoss)..MaxLoss
NumVals == MaxVal + 1

VARIABLES gf_dim, fc_unit, height, width, channel, pad, bn_in_place,
          pc, err, vals,
          g, g_test, d_real, d_fake,
          d_real_op, d_op, g_op,
          fetched

config == <<gf_dim, fc_unit, height, width, channel, pad, bn_in_place>>
tensors == <<g, g_test, d_real, d_fake>>
ops == <<d_real_op, d_op, g_op>>
vars == <<gf_dim, fc_unit, height, width, channel, pad, bn_in_place, pc, err, vals,
          g, g_test, d_real, d_fake, d_real_op, d_op, g_op, fetched>>

None == [shape |-> <<0, 0, 0>>, reads |-> {}, updates |-> {}, created |-> {}]
NoOp == [loss |-> "none", var_list |-> {}]
NoFetch == [op |-> "none", error |-> "none", batch |-> 0, rows |-> 0, z |-> 0,
            out |-> 0, m |-> 0, d_real_loss |-> 0, d_fake_loss |-> 0,
            d_loss |-> 0, g_loss |-> 0]

\* ------------------------------------------------ layers and their variables
GeneratorLayers ==
    { <<"gen-fc-1", "dense">>, <<"gen-bn-1", "batch_norm">>,
      <<"gen-deconv2d-1", "deconv2d">>, <<"gen-bn-2", "batch_norm">>,
      <<"gen-deconv2d-2", "deconv2d">>, <<"gen-bn-3", "batch_norm">>,
      <<"gen-deconv2d-3", "deconv2d">> }

EncoderLayers ==
    { <<"enc-conv2d-1", "conv2d">>,
      <<"enc-conv2d-2", "conv2d">>, <<"enc-bn-1", "batch_norm">>,
      <<"enc-conv2d-3", "conv2d">>, <<"enc-bn-2", "batch_norm">> }

DecoderLayers ==
    { <<"dec-deconv2d-1", "deconv2d">>, <<"dec-bn-1", "batch_norm">>,
      <<"dec-deconv2d-2", "deconv2d">>, <<"dec-bn-2", "batch_norm">>,
      <<"dec-deconv2d-3", "deconv2d">> }

GeneratorScope == <<"generator">>
EncoderScope == <<"discriminator", "encoder">>
DecoderScope == <<"discriminator", "decoder">>

MovingStats == {"moving_mean", "moving_variance"}

\* the variables a layer of tfutil owns
LayerVars(kind) ==
    IF kind = "batch_norm" THEN {"gamma", "beta"} \cup MovingStats
    ELSE {"kernel", "bias"}

\* the variables a layer reads when its output is evaluated
LayerReads(kind, is_train) ==
    IF kind = "batch_norm" /\ is_train THEN {"gamma", "beta"} ELSE LayerVars(kind)

\* the running statistics a layer's evaluation may assign
LayerUpdates(kind, is_train) ==
    IF kind = "batch_norm" /\ is_train THEN MovingStats ELSE {}

NetVars(scope, layers) ==
    UNION { { scope \o <<l[1], n>> : n \in LayerVars(l[2]) } : l \in layers }

NetReads(scope, layers, is_train) ==
    UNION { { scope \o <<l[1], n>> : n \in LayerReads(l[2], is_train) } : l \in layers }

NetUpdates(scope, layers, is_train) ==
    UNION { { scope \o <<l[1], n>> : n \in LayerUpdates(l[2], is_train) } : l \in layers }

\* tf.trainable_variables(): everything but the running statistics
Trainable(v) == v[Len(v)] \notin MovingStats

\* the first character of a variable's name is that of its outermost scope
Initial(v) == IF v[1] = "generator" THEN "g" ELSE "d"

\* tf.variable_scope(..., reuse): "none", or the error get_variable raises
ScopeError(names, reuse) ==
    IF reuse THEN (IF names \subseteq DOMAIN vals THEN "none" ELSE "VariableNotFound")
    ELSE (IF names \cap DOMAIN vals = {} THEN "none" ELSE "VariableExists")

\* the variable store after a scope has resolved names: new ones start at 0
Resolve(names) ==
    [v \in (DOMAIN vals) \cup names |-> IF v \in DOMAIN vals THEN vals[v] ELSE 0]

\* ------------------------------------------------------- shape arithmetic
\* output side of a strided convolution; 0 when the window does not fit
ConvOut(n) ==
    IF pad = "SAME" THEN (n + Stride - 1) \div Stride
    ELSE IF n >= Kernel THEN ((n - Kernel) \div Stride) + 1 ELSE 0

\* output side of a strided transposed convolution
DeconvOut(n) ==
    IF pad = "SAME" THEN n * Stride ELSE (n - 1) * Stride + Kernel

EncoderSide(n) == ConvOut(ConvOut(ConvOut(n)))
DecoderSide(n) == DeconvOut(DeconvOut(DeconvOut(n)))

\* encoder: shape of the embedding of an image of shape s (channels df_dim*4
\* do not enter any later shape, so only the sides are kept)
encoder(s) == <<EncoderSide(s[1]), EncoderSide(s[2]), s[3]>>

\* decoder: the last deconvolution has self.channel filters
decoder(s) == <<DecoderSide(s[1]), DecoderSide(s[2]), channel>>

\* generator output shape: reshape to 4 x 4, three deconvolutions
GeneratorShape == <<DecoderSide(FeatureSide), DecoderSide(FeatureSide), channel>>

\* mse_loss(a, b): the two tensors must have the same shape
MseShapesOk(a, b) == a.shape = b.shape

\* --------------------------------------------------------------- networks
\* line 178 with the floor taken first, as the reshape of line 184 takes it
AssertOk_floor_first == fc_unit = FeatureSide * FeatureSide * (gf_dim \div 2)

\* line 178: Python reads 4 * 4 * self.gf_dim // 2 as ((4 * 4 * gf_dim) // 2)
AssertOk == fc_unit = ((FeatureSide * FeatureSide * gf_dim) \div 2)

\* generator(z, reuse, is_train): the assertion, then the layers in scope
\* "generator"; the reshape (-1, 4, 4, gf_dim // 2) has a dynamic batch
\* dimension, so it is settled only when the tensor is evaluated
generator(reuse, is_train) ==
    LET names == NetVars(GeneratorScope, GeneratorLayers)
        error == IF ~AssertOk THEN "AssertionError" ELSE ScopeError(names, reuse)
    IN  [error |-> error,
         tensor |-> [shape |-> GeneratorShape,
                     reads |-> NetReads(GeneratorScope, GeneratorLayers, is_train),
                     updates |-> NetUpdates(GeneratorScope, GeneratorLayers, is_train),
                     created |-> names \ DOMAIN vals]]

\* discriminator(x, reuse): encoder then decoder, both with the same reuse;
\* their batch norms are built with the default is_train (training mode)
discriminator(x, reuse) ==
    LET names == NetVars(EncoderScope, EncoderLayers) \cup NetVars(DecoderScope, DecoderLayers)
        embeddings == encoder(x.shape)
        error == IF embeddings[1] = 0 \/ embeddings[2] = 0 THEN "ShapeError"
                 ELSE ScopeError(names, reuse)
    IN  [error |-> error,
         tensor |-> [shape |-> decoder(embeddings),
                     reads |-> NetReads(EncoderScope, EncoderLayers, TRUE)
                               \cup NetReads(DecoderScope, DecoderLayers, TRUE),
                     updates |-> NetUpdates(EncoderScope, EncoderLayers, TRUE)
                                 \cup NetUpdates(DecoderScope, DecoderLayers, TRUE),
                     created |-> names \ DOMAIN vals]]

\* the placeholder self.x
x_image == [shape |-> <<height, width, channel>>, reads |-> {}, updates |-> {}, created |-> {}]

\* ------------------------------------------------------------------- Init
\* MAGAN.__init__ up to the call of build_magan: the fields are set, no
\* variable exists, no tensor or operation has been built
Init ==
    /\ gf_dim \in GfDims
    /\ fc_unit \in FcUnits
    /\ height \in Sides
    /\ width \in {height, DefaultSide}
    /\ channel = DefaultChannel
    /\ pad \in Paddings
    /\ bn_in_place \in BOOLEAN
    /\ pc = "generator"
    /\ err = "none"
    /\ vals = [v \in {} |-> 0]
    /\ g = None /\ g_test = None /\ d_real = None /\ d_fake = None
    /\ d_real_op = NoOp /\ d_op = NoOp /\ g_op = NoOp
    /\ fetched = NoFetch

\* an exception leaves build_magan: construction is over
Raise(error) ==
    /\ pc' = "failed"
    /\ err' = error
    /\ UNCHANGED <<vals, tensors, ops, fetched, config>>

\* -------------------------------------------------------- build_magan steps
\* line 201: self.g = self.generator(self.z)
BuildG ==
    /\ pc = "generator"
    /\ LET r == generator(FALSE, TRUE)
       IN  IF r.error # "none" THEN Raise(r.error)
           ELSE /\ g' = r.tensor
                /\ vals' = Resolve(r.tensor.created)
                /\ pc' = "g_test"
                /\ UNCHANGED <<err, g_test, d_real, d_fake, ops, fetched, config>>

\* line 202 with is_train left at its default: the sampling tensor is built
\* in training mode
BuildGTestTraining ==
    /\ pc = "g_test"
    /\ LET r == generator(TRUE, TRUE)
       IN  IF r.error # "none" THEN Raise(r.error)
           ELSE /\ g_test' = r.tensor
                /\ vals' = Resolve(r.tensor.created)
                /\ pc' = "d_real"
                /\ UNCHANGED <<err, g, d_real, d_fake, ops, fetched, config>>

\* line 202: self.g_test = self.generator(self.z, reuse=True, is_train=False)
BuildGTest ==
    /\ pc = "g_test"
    /\ LET r == generator(TRUE, FALSE)
       IN  IF r.error # "none" THEN Raise(r.error)
           ELSE /\ g_test' = r.tensor
                /\ vals' = Resolve(r.tensor.created)
                /\ pc' = "d_real"
                /\ UNCHANGED <<err, g, d_real, d_fake, ops, fetched, config>>

\* line 205: _, d_real = self.discriminator(self.x)
BuildDReal ==
    /\ pc = "d_real"
    /\ LET r == discriminator(x_image, FALSE)
       IN  IF r.error # "none" THEN Raise(r.error)
           ELSE /\ d_real' = r.tensor
                /\ vals' = Resolve(r.tensor.created)
                /\ pc' = "d_fake"
                /\ UNCHANGED <<err, g, g_test, d_fake, ops, fetched, config>>

\* line 206 without reuse=True
BuildDFakeNoReuse ==
    /\ pc = "d_fake"
    /\ LET r == discriminator(g, FALSE)
       IN  IF r.error # "none" THEN Raise(r.error)
           ELSE /\ d_fake' = r.tensor
                /\ vals' = Resolve(r.tensor.created)
                /\ pc' = "losses"
                /\ UNCHANGED <<err, g, g_test, d_real, ops, fetched, config>>

\* line 206: _, d_fake = self.discriminator(self.g, reuse=True)
BuildDFake ==
    /\ pc = "d_fake"
    /\ LET r == discriminator(g, TRUE)
       IN  IF r.error # "none" THEN Raise(r.error)
           ELSE /\ d_fake' = r.tensor
                /\ vals' = Resolve(r.tensor.created)
                /\ pc' = "losses"
                /\ UNCHANGED <<err, g, g_test, d_real, ops, fetched, config>>

\* lines 208-211: the two mean squared errors; d_loss and g_loss are built
\* from them and add no shape constraint
BuildLosses ==
    /\ pc = "losses"
    /\ IF ~(MseShapesOk(x_image, d_real) /\ MseShapesOk(g, d_fake)) THEN Raise("ShapeError")
       ELSE /\ pc' = "optimizer"
            /\ UNCHANGED <<err, vals, tensors, ops, fetched, config>>

\* lines 220-222
t_vars == {v \in DOMAIN vals : Trainable(v)}
\* lines 221 and 222 with the name filter dropped
d_params_unfiltered(tv) == tv
g_params_unfiltered(tv) == tv

d_params(tv) == {v \in tv : Initial(v) = "d"}
g_params(tv) == {v \in tv : Initial(v) = "g"}

\* lines 224-233: three optimizers, each minimize(loss, var_list)
BuildOptimizer ==
    /\ pc = "optimizer"
    /\ d_real_op' = [loss |-> "d_real_loss", var_list |-> d_params(t_vars)]
    /\ d_op' = [loss |-> "d_loss", var_list |-> d_params(t_vars)]
    /\ g_op' = [loss |-> "g_loss", var_list |-> g_params(t_vars)]
    /\ pc' = "built"
    /\ UNCHANGED <<err, vals, tensors, fetched, config>>

\* ------------------------------------------------------------ session runs
\* line 184: elements per sample of the reshape target (-1, 4, 4, gf_dim // 2)
PerSample == FeatureSide * FeatureSide * (gf_dim \div 2)

\* tf.reshape of the dense output [batch, fc_unit] at run time: the -1
\* dimension is inferred from the total number of elements
ReshapeOk(batch) == PerSample > 0 /\ (batch * fc_unit) % PerSample = 0
ReshapeRows(batch) == (batch * fc_unit) \div PerSample

\* the tensors a loss is computed from (lines 208-211)
LossTensors(loss) ==
    IF loss = "d_real_loss" THEN {"d_real"}
    ELSE IF loss = "g_loss" THEN {"g", "d_fake"}
    ELSE {"d_real", "g", "d_fake"}

Tensor(name) ==
    IF name = "g" THEN g
    ELSE IF name = "g_test" THEN g_test
    ELSE IF name = "d_real" THEN d_real
    ELSE d_fake

\* evaluating tensors: "none", or the error the generator's reshape raises
EvalError(ts, batch) ==
    IF ("g" \in ts \/ "g_test" \in ts) /\ ~ReshapeOk(batch) THEN "InvalidArgumentError" ELSE "none"

\* the running statistics the evaluation of tensors assigns: those of its
\* batch norms in training mode when tfutil updates them in place, none when
\* it leaves the updates to a collection, which build_magan never runs
EvalUpdates(ts) == IF bn_in_place THEN UNION {Tensor(t).updates : t \in ts} ELSE {}

\* the store after a run: the optimizer moves every variable of var_list by
\* delta, a batch norm in training mode may move its running statistics
Assign(var_list, delta, moved) ==
    [v \in DOMAIN vals |->
        IF v \in var_list THEN (vals[v] + delta) % NumVals
        ELSE IF v \in moved THEN (vals[v] + 1) % NumVals
        ELSE vals[v]]

\* line 210 without tf.maximum
D_loss_no_hinge(d_real_loss, d_fake_loss, m) == d_real_loss + (m - d_fake_loss)

\* line 210 with the operands of the subtraction swapped
D_loss_swapped(d_real_loss, d_fake_loss, m) ==
    d_real_loss + (IF d_fake_loss - m > 0 THEN d_fake_loss - m ELSE 0)

\* line 210
D_loss(d_real_loss, d_fake_loss, m) ==
    d_real_loss + (IF m - d_fake_loss > 0 THEN m - d_fake_loss ELSE 0)

\* line 211
G_loss(d_fake_loss) == d_fake_loss

\* mse_loss: a mean of squares, any non-negative value
mse_loss == LossValues

RECURSIVE SumVals(_)
SumVals(S) ==
    IF S = {} THEN 0
    ELSE LET v == CHOOSE w \in S : TRUE IN vals[v] + SumVals(S \ {v})

\* the value of a tensor for noise z: a function of z and of the variables
\* the tensor reads
Eval(t, z) == (z + SumVals(t.reads)) % NumVals

\* s.run of one optimizer operation: Optimizer.minimize(loss, var_list)
Minimize(name, op, batch, delta) ==
    LET ts == LossTensors(op.loss)
        error == EvalError(ts, batch)
    IN  /\ pc = "built"
        /\ fetched' = [NoFetch EXCEPT !.op = name, !.error = error]
        /\ vals' = IF error # "none" THEN vals
                   ELSE Assign(op.var_list, delta, EvalUpdates(ts))
        /\ UNCHANGED <<pc, err, tensors, ops, config>>

RunDRealOp ==
    \E batch \in Batches, delta \in 1..MaxVal :
        Minimize("d_real_op", d_real_op, batch, delta)

RunDOp ==
    \E batch \in Batches, delta \in 1..MaxVal :
        Minimize("d_op", d_op, batch, delta)

RunGOp ==
    \E batch \in Batches, delta \in 1..MaxVal :
        Minimize("g_op", g_op, batch, delta)

\* s.run of the four losses for a fed batch and margin
RunLosses ==
    \E batch \in Batches, m \in Margins, dr \in mse_loss, df \in mse_loss :
        LET ts == {"d_real", "g", "d_fake"}
            error == EvalError(ts, batch)
        IN  /\ pc = "built"
            /\ fetched' = IF error # "none"
                          THEN [NoFetch EXCEPT !.op = "losses", !.error = error]
                          ELSE [NoFetch EXCEPT !.op = "losses", !.m = m,
                                               !.d_real_loss = dr, !.d_fake_loss = df,
                                               !.d_loss = D_loss(dr, df, m),
                                               !.g_loss = G_loss(df)]
            /\ vals' = IF error # "none" THEN vals
                       ELSE Assign({}, 0, EvalUpdates(ts))
            /\ UNCHANGED <<pc, err, tensors, ops, config>>

\* s.run of self.g_test for a fed noise batch
RunGTest ==
    \E batch \in Batches, z \in Noise :
        LET ts == {"g_test"}
            error == EvalError(ts, batch)
        IN  /\ pc = "built"
            /\ fetched' = IF error # "none"
                          THEN [NoFetch EXCEPT !.op = "g_test", !.error = error,
                                               !.batch = batch, !.z = z]
                          ELSE [NoFetch EXCEPT !.op = "g_test", !.batch = batch, !.z = z,
                                               !.rows = ReshapeRows(batch),
                                               !.out = Eval(g_test, z)]
            /\ vals' = IF error # "none" THEN vals
                       ELSE Assign({}, 0, EvalUpdates(ts))
            /\ UNCHANGED <<pc, err, tensors, ops, config>>

\* build_magan, one statement at a time
Build ==
    \/ BuildG
    \/ BuildGTest
    \/ BuildDReal
    \/ BuildDFake
    \/ BuildLosses
    \/ BuildOptimizer

\* construction, then any sequence of training steps and samplings
Next ==
    \/ BuildG
    \/ BuildGTest
    \/ BuildDReal
    \/ BuildDFake
    \/ BuildLosses
    \/ BuildOptimizer
    \/ RunDRealOp
    \/ RunDOp
    \/ RunGOp
    \/ RunGTest

Spec == Init /\ [][Next]_vars

\* construction, then any sequence of evaluations of the four losses; the
\* loss values are drawn independently of the store, so the evaluations are
\* checked apart from the training steps
NextLosses ==
    \/ BuildG
    \/ BuildGTest
    \/ BuildDReal
    \/ BuildDFake
    \/ BuildLosses
    \/ BuildOptimizer
    \/ RunLosses

\* the default generator widths (line 33), every image size
InitLosses == Init /\ gf_dim = DefaultGfDim /\ fc_unit = DefaultFcUnit

SpecLosses == InitLosses /\ [][NextLosses]_vars

\* ================================================================= claims
GenTrainable == {v \in DOMAIN vals : Trainable(v) /\ Initial(v) = "g"}
DiscTrainable == {v \in DOMAIN vals : Trainable(v) /\ Initial(v) = "d"}
Same(S) == \A v \in S : vals'[v] = vals[v]

\* C1: the generator is constructed exactly when fc_unit equals
\* 4 * 4 * (gf_dim / 2), the division being exact (fc_unit * 2 = 4 * 4 * gf_dim);
\* every other configuration fails, at the assertion, and construction ends.
C1_ConstructedIffAssertedWidth ==
    pc # "generator" =>
        /\ (fc_unit * 2 = FeatureSide * FeatureSide * gf_dim) <=> (g # None)
        /\ g = None => (pc = "failed" /\ err = "AssertionError")

\* C1 witness: the default generator width with another fc_unit has failed
\* at the assertion.
C1_Witness ==
    pc = "failed" /\ err = "AssertionError" /\ gf_dim = DefaultGfDim

\* C9: whenever the assertion passes, fc_unit is the number of elements per
\* sample of the reshape target, for even and odd gf_dim, so an evaluated
\* generator output has as many rows as the noise batch fed.
C9_AssertGivesPerSampleWidth ==
    /\ g # None => fc_unit = PerSample
    /\ (fetched.op = "g_test" /\ fetched.error = "none") => fetched.rows = fetched.batch

\* C10: the reconstruction of the real batch has the shape of the image
\* placeholder, and the reconstruction of the generated batch has the shape
\* of the generator's output.
C10_ReconstructionKeepsShape ==
    /\ d_real # None => d_real.shape = x_image.shape
    /\ d_fake # None => d_fake.shape = g.shape

\* C5: with height = width = 28, channel = 1 and the default generator
\* widths, construction does not fail and no run of an operation raises.
C5_ScenarioRuns ==
    (height = DefaultSide /\ width = DefaultSide /\ channel = DefaultChannel
       /\ gf_dim = DefaultGfDim /\ fc_unit = DefaultFcUnit)
    => (pc # "failed" /\ fetched.error = "none")

\* C2: a d_real_op or d_op step leaves every trainable variable of the
\* generator unchanged, and a g_op step leaves every trainable variable of
\* the discriminator unchanged.
C2_StepStaysInPartition ==
    [][pc = "built" =>
          /\ fetched'.op \in {"d_real_op", "d_op"} => Same(GenTrainable)
          /\ fetched'.op = "g_op" => Same(DiscTrainable)]_vars

\* C2 witness: a d_op step has moved the discriminator's parameters and the
\* generator's are where they started.
C2_Witness ==
    /\ pc = "built" /\ fetched.op = "d_op" /\ fetched.error = "none"
    /\ GenTrainable # {}
    /\ \A v \in GenTrainable : vals[v] = 0
    /\ \A v \in DiscTrainable : vals[v] # 0

\* C7 as stated: no trainable variable is in the var_list of more than one
\* of d_real_op, d_op and g_op.
C7_WriteSetsPairwiseDisjoint ==
    pc = "built" =>
        /\ d_real_op.var_list \cap d_op.var_list = {}
        /\ d_real_op.var_list \cap g_op.var_list = {}
        /\ d_op.var_list \cap g_op.var_list = {}

\* C7 amended: d_real_op and d_op write the same set, the discriminator's
\* trainable variables; g_op writes the generator's; the two sets are
\* disjoint and together hold every trainable variable.
C7_TwoPartitions ==
    pc = "built" =>
        /\ d_real_op.var_list = d_op.var_list
        /\ \A v \in d_op.var_list : v[1] = "discriminator"
        /\ \A v \in g_op.var_list : v[1] = "generator"
        /\ d_op.var_list \cap g_op.var_list = {}
        /\ d_op.var_list \cup g_op.var_list = {v \in DOMAIN vals : Trainable(v)}

\* C7 witness: the three operations are built and none has an empty var_list.
C7_Witness ==
    /\ pc = "built"
    /\ d_real_op.var_list # {} /\ d_op.var_list # {} /\ g_op.var_list # {}

\* C3: for every margin, zero and negative included, d_loss >= d_real_loss.
C3_DLossAtLeastReal ==
    (fetched.op = "losses" /\ fetched.error = "none")
    => fetched.d_loss >= fetched.d_real_loss

\* C3 witness: the losses were evaluated under a negative margin.
C3_Witness ==
    fetched.op = "losses" /\ fetched.error = "none" /\ fetched.m < 0

\* C4: when d_fake_loss > m, d_loss equals d_real_loss.
C4_HingeZeroBeyondMargin ==
    (fetched.op = "losses" /\ fetched.error = "none" /\ fetched.d_fake_loss > fetched.m)
    => fetched.d_loss = fetched.d_real_loss

\* C4 witness: the losses were evaluated with d_fake_loss above a positive
\* margin and a non-zero d_real_loss.
C4_Witness ==
    /\ fetched.op = "losses" /\ fetched.error = "none"
    /\ fetched.m > 0 /\ fetched.d_fake_loss > fetched.m /\ fetched.d_real_loss > 0

\* C6: the second discriminator invocation resolves to the variables of the
\* first: it creates none, fails to find none, and reads the same set.
C6_ReuseResolvesSameVariables ==
    /\ d_real # None => err \notin {"VariableNotFound", "VariableExists"}
    /\ d_fake # None =>
          /\ d_fake.created = {}
          /\ d_fake.reads = d_real.reads
          /\ d_fake.reads \subseteq DOMAIN vals

\* C6 witness: both invocations are built and the first created the variables.
C6_Witness ==
    d_fake # None /\ d_real.created # {} /\ d_fake.reads # {}

\* C8: evaluating g_test changes no variable, trainable or running
\* statistic; evaluated again on the same noise right after, it gives the
\* same output.
C8_SamplingDeterministic ==
    [][(pc = "built" /\ fetched'.op = "g_test") =>
          /\ vals' = vals
          /\ (fetched.op = "g_test" /\ fetched.error = "none" /\ fetched'.error = "none"
                /\ fetched'.z = fetched.z /\ fetched'.batch = fetched.batch)
             => (fetched'.out = fetched.out /\ fetched'.rows = fetched.rows)]_vars

\* C8 witness: g_test was evaluated after training moved the generator's
\* parameters, with batch norms that update their statistics in place.
C8_Witness ==
    /\ pc = "built" /\ fetched.op = "g_test" /\ fetched.error = "none"
    /\ bn_in_place
    /\ \E v \in GenTrainable : vals[v] # 0

====
